---------------------------- MODULE Spec2Model ----------------------------
(* A model of the backtesting core of sma-crossover-backtester:            *)
(*   app/services/strategy.py  run_sma_crossover, buy_and_hold,            *)
(*                             run_mean_reversion_zscore                   *)
(*   app/services/metrics.py   compute_metrics                             *)
(*   app/main.py               _apply_horizon_window_and_rebase, backtest  *)
(* Floats are modelled by exact rationals <<n, d>> (d > 0, lowest terms);  *)
(* NaN is the pair <<0, 0>>.  A square root is carried by its radicand.    *)
EXTENDS Integers, Sequences, FiniteSets, TLC

(***************************************************************************)
(* Bounds of the model and sample sets the inputs are drawn from.          *)
(***************************************************************************)
\* longest price series handed to run_sma_crossover
MaxBars == 22
\* longest price series handed to run_mean_reversion_zscore
MaxMRBars == 5
\* longest return series handed directly to compute_metrics
MaxReturns == 4

\* sample close prices (positive)
Closes == {1, 2, 3}
\* sample values of initial_capital (> 0)
Capitals == {10000}

(***************************************************************************)
(* Exact rational arithmetic standing for Python float arithmetic.         *)
(***************************************************************************)
Abs(n) == IF n < 0 THEN -n ELSE n

RECURSIVE GCD(_, _)
GCD(a, b) == IF b = 0 THEN a ELSE GCD(b, a % b)

NaN == <<0, 0>>
IsNaN(x) == x[2] = 0
NotNa(x) == x[2] # 0

Rat(n, d) ==
    IF d = 0 THEN NaN
    ELSE LET s == IF d < 0 THEN -1 ELSE 1
             g == GCD(Abs(n), Abs(d))
         IN  <<(s * n) \div g, (s * d) \div g>>

Int2Rat(n) == <<n, 1>>
Zero == <<0, 1>>
One == <<1, 1>>

RAdd(x, y) == IF IsNaN(x) \/ IsNaN(y) THEN NaN
              ELSE Rat(x[1] * y[2] + y[1] * x[2], x[2] * y[2])
RNeg(x) == IF IsNaN(x) THEN NaN ELSE <<-x[1], x[2]>>
RSub(x, y) == RAdd(x, RNeg(y))
RMul(x, y) == IF IsNaN(x) \/ IsNaN(y) THEN NaN
              ELSE LET g1 == GCD(Abs(x[1]), y[2])
                       g2 == GCD(Abs(y[1]), x[2])
                   IN  <<(x[1] \div g1) * (y[1] \div g2),
                         (x[2] \div g2) * (y[2] \div g1)>>
\* x / y; a zero divisor gives NaN (0/0) in the cases the model reaches
RDiv(x, y) == IF IsNaN(x) \/ IsNaN(y) \/ y[1] = 0 THEN NaN
              ELSE RMul(x, Rat(y[2], y[1]))
\* comparisons with NaN are false, as in Python
RLt(x, y) == NotNa(x) /\ NotNa(y) /\ x[1] * y[2] < y[1] * x[2]
RLe(x, y) == NotNa(x) /\ NotNa(y) /\ x[1] * y[2] <= y[1] * x[2]
RGt(x, y) == RLt(y, x)
RGe(x, y) == RLe(y, x)
RMax(x, y) == IF RGe(x, y) THEN x ELSE y
RMin(x, y) == IF RLe(x, y) THEN x ELSE y

(***************************************************************************)
(* Calendar dates <<year, month, day>>.                                    *)
(***************************************************************************)
IsLeap(y) == (y % 4 = 0 /\ y % 100 # 0) \/ y % 400 = 0

DaysInMonth(y, m) ==
    IF m = 2 THEN (IF IsLeap(y) THEN 29 ELSE 28)
    ELSE IF m \in {4, 6, 9, 11} THEN 30 ELSE 31

\* datetime.date + timedelta(days = k), k >= 0
RECURSIVE AddDays(_, _)
AddDays(dt, k) ==
    LET dim == DaysInMonth(dt[1], dt[2])
    IN  IF dt[3] + k <= dim THEN <<dt[1], dt[2], dt[3] + k>>
        ELSE AddDays(IF dt[2] = 12 THEN <<dt[1] + 1, 1, 1>>
                                   ELSE <<dt[1], dt[2] + 1, 1>>,
                     k - (dim - dt[3]) - 1)

\* date comparison d1 >= d2
DateGe(d1, d2) ==
    \/ d1[1] > d2[1]
    \/ d1[1] = d2[1] /\ d1[2] > d2[2]
    \/ d1[1] = d2[1] /\ d1[2] = d2[2] /\ d1[3] >= d2[3]

\* pd.Timestamp(dt) - pd.DateOffset(months = n): calendar-month arithmetic,
\* the day clamped to the length of the target month
SubMonths(dt, n) ==
    LET idx == dt[1] * 12 + (dt[2] - 1) - n
        y == idx \div 12
        m == (idx % 12) + 1
        dim == DaysInMonth(y, m)
    IN  <<y, m, IF dt[3] > dim THEN dim ELSE dt[3]>>

(***************************************************************************)
(* pandas column operations used by the engines.  A column is a tuple;     *)
(* Column turns a function on 1..n into the tuple of its values.           *)
(***************************************************************************)
Column(f) == <<>> \o f

\* Series.pct_change().fillna(0.0) of a close column
PctChange(close) ==
    Column([i \in 1..Len(close) |->
        IF i = 1 THEN Zero ELSE RSub(Rat(close[i], close[i - 1]), One)])

RECURSIVE SumRange(_, _, _)
SumRange(s, lo, hi) == IF lo > hi THEN 0 ELSE s[hi] + SumRange(s, lo, hi - 1)

\* a variant with min_periods = 1: the mean of the rows there are
RollingMean_MinPeriods1(close, w) ==
    Column([i \in 1..Len(close) |->
        IF i < w THEN Rat(SumRange(close, 1, i), i)
        ELSE Rat(SumRange(close, i - w + 1, i), w)])

\* Series.rolling(window = w, min_periods = w).mean()
RollingMean(close, w) ==
    Column([i \in 1..Len(close) |->
        IF i < w THEN NaN ELSE Rat(SumRange(close, i - w + 1, i), w)])

\* a variant without the one-bar lag: the column itself
ShiftFill_NoLag(s) == Column([i \in 1..Len(s) |-> s[i]])

\* Series.shift(1).fillna(0.0) of an integer-valued column
ShiftFill(s) == Column([i \in 1..Len(s) |-> IF i = 1 THEN 0 ELSE s[i - 1]])

\* position * ret
TimesRet(position, ret) ==
    Column([i \in 1..Len(ret) |-> RMul(Int2Rat(position[i]), ret[i])])

\* the last value of a non-empty column
Last(col) == col[Len(col)]

\* (1.0 + r).cumprod() over rows lo..hi, acc the product before row lo; the
\* rows are multiplied in from left to right, the range is halved only to
\* keep the evaluation shallow
RECURSIVE CumProdFrom(_, _, _, _)
CumProdFrom(r, lo, hi, acc) ==
    IF lo > hi THEN <<>>
    ELSE IF lo = hi THEN <<RMul(acc, RAdd(One, r[lo]))>>
    ELSE LET mid == (lo + hi) \div 2
             left == CumProdFrom(r, lo, mid, acc)
         IN  left \o CumProdFrom(r, mid + 1, hi, Last(left))

CumProd1p(r) == CumProdFrom(r, 1, Len(r), One)

\* c * column
Scale(c, col) == Column([i \in 1..Len(col) |-> RMul(Int2Rat(c), col[i])])

\* a variant that leaves out the scaling by initial_capital
Equity_Unscaled(initial_capital, r) == CumProd1p(r)

\* initial_capital * (1.0 + r).cumprod()
Equity(initial_capital, r) == Scale(initial_capital, CumProd1p(r))

(***************************************************************************)
(* run_sma_crossover (strategy.py 8-37) and buy_and_hold (40-45).          *)
(* A DataFrame is a record of equally long columns.                        *)
(***************************************************************************)
FastWindow == 5
SlowWindow == 20

\* ma_ready = sma_5.notna() & sma_20.notna()
MaReady(sma_5, sma_20, i) == NotNa(sma_5[i]) /\ NotNa(sma_20[i])

\* a variant that shorts only when sma_5 is strictly below sma_20
SmaSignal_StrictBelow(sma_5, sma_20, position_mode) ==
    Column([i \in 1..Len(sma_5) |->
        IF MaReady(sma_5, sma_20, i) /\ RGt(sma_5[i], sma_20[i]) THEN 1
        ELSE IF /\ position_mode = "long_short"
                /\ MaReady(sma_5, sma_20, i) /\ RLt(sma_5[i], sma_20[i])
             THEN -1 ELSE 0])

\* the signal column, strategy.py 23-29
SmaSignal(sma_5, sma_20, position_mode) ==
    Column([i \in 1..Len(sma_5) |->
        IF position_mode = "long_short"
        THEN IF MaReady(sma_5, sma_20, i) /\ RGt(sma_5[i], sma_20[i]) THEN 1
             ELSE IF MaReady(sma_5, sma_20, i) /\ RLe(sma_5[i], sma_20[i])
                  THEN -1 ELSE 0
        ELSE IF MaReady(sma_5, sma_20, i) /\ RGt(sma_5[i], sma_20[i]) THEN 1
             ELSE 0])

run_sma_crossover(df, initial_capital, position_mode) ==
    LET ret == PctChange(df.close)
        sma_5 == RollingMean(df.close, FastWindow)
        sma_20 == RollingMean(df.close, SlowWindow)
        sig == SmaSignal(sma_5, sma_20, position_mode)
        position == ShiftFill(sig)
        strategy_ret == TimesRet(position, ret)
    IN  [date |-> df.date, close |-> df.close, ret |-> ret,
         sma_5 |-> sma_5, sma_20 |-> sma_20, signal |-> sig,
         position |-> position, strategy_ret |-> strategy_ret,
         strategy_equity |-> Equity(initial_capital, strategy_ret),
         buy_hold_equity |-> Equity(initial_capital, ret)]

buy_and_hold(df, initial_capital) ==
    LET ret == PctChange(df.close)
    IN  [date |-> df.date, close |-> df.close, ret |-> ret,
         equity |-> Equity(initial_capital, ret)]

(***************************************************************************)
(* _apply_horizon_window_and_rebase (main.py 62-93).                       *)
(***************************************************************************)
Horizons == {"1M", "6M", "1Y", "5Y", "10Y"}

HORIZON_MONTHS(h) ==
    CASE h = "1M" -> 1 [] h = "6M" -> 6 [] h = "1Y" -> 12
      [] h = "5Y" -> 60 [] h = "10Y" -> 120

\* the row numbers of df[df["date"] >= cutoff], in order
RECURSIVE RowsFrom(_, _, _)
RowsFrom(date, cutoff, i) ==
    IF i > Len(date) THEN <<>>
    ELSE (IF DateGe(date[i], cutoff) THEN <<i>> ELSE <<>>)
         \o RowsFrom(date, cutoff, i + 1)

\* the rows of the window: the filtered rows, or all rows when none is left
WindowRows(df, horizon) ==
    LET latest_date == df.date[Len(df.date)]
        cutoff == SubMonths(latest_date, HORIZON_MONTHS(horizon))
        kept == RowsFrom(df.date, cutoff, 1)
    IN  IF kept = <<>> THEN Column([i \in 1..Len(df.date) |-> i]) ELSE kept

\* a variant without the guard on a base equity <= 0
Rebase_Unguarded(col, initial_capital) ==
    Column([i \in 1..Len(col) |->
        RMul(Int2Rat(initial_capital), RDiv(col[i], col[1]))])

\* one equity column rebased on the first value of the window, main.py 84-91
Rebase(col, initial_capital) ==
    LET base_equity == col[1]
    IN  IF RLe(base_equity, Zero)
        THEN Column([i \in 1..Len(col) |-> Int2Rat(initial_capital)])
        ELSE Column([i \in 1..Len(col) |->
                 RMul(Int2Rat(initial_capital), RDiv(col[i], base_equity))])

\* a DataFrame from a function on column names
Frame(f) == f @@ <<>>

\* one return column with its first value reset, main.py 80-82
ResetFirst(col) ==
    Column([i \in 1..Len(col) |-> IF i = 1 THEN Zero ELSE col[i]])

apply_horizon_window_and_rebase(df, horizon, initial_capital, return_columns, equity_columns) ==
    IF Len(df.date) = 0 THEN df
    ELSE LET rows == WindowRows(df, horizon)
             cut(c) == Column([i \in 1..Len(rows) |-> df[c][rows[i]]])
         IN  Frame([c \in DOMAIN df |->
                 IF c \in return_columns THEN ResetFirst(cut(c))
                 ELSE IF c \in equity_columns
                      THEN Rebase(cut(c), initial_capital)
                      ELSE cut(c)])

(***************************************************************************)
(* compute_metrics (metrics.py 12-36).  volatility and sharpe_ratio hold   *)
(* a square root: volatility_sq is the square of the volatility, and       *)
(* sharpe_ratio is <<num, den_sq>> for num / sqrt(den_sq).  cagr is        *)
(* <<base, years>> for base ** (1 / years) - 1.                            *)
(***************************************************************************)
WEEKS_PER_YEAR == 52

\* equity.cummax() over rows lo..hi, acc the maximum before row lo (NaN
\* before the first row)
RECURSIVE CumMaxFrom(_, _, _, _)
CumMaxFrom(e, lo, hi, acc) ==
    IF lo > hi THEN <<>>
    ELSE IF lo = hi THEN <<IF IsNaN(acc) THEN e[lo] ELSE RMax(acc, e[lo])>>
    ELSE LET mid == (lo + hi) \div 2
             left == CumMaxFrom(e, lo, mid, acc)
         IN  left \o CumMaxFrom(e, mid + 1, hi, Last(left))

CumMax(e) == CumMaxFrom(e, 1, Len(e), NaN)

\* the smaller of two values, a NaN being skipped
MinSkipNa(x, y) == IF IsNaN(x) THEN y ELSE IF IsNaN(y) THEN x ELSE RMin(x, y)

\* the minimum of s[lo..hi], skipping NaN; NaN when nothing is left
RECURSIVE MinRange(_, _, _)
MinRange(s, lo, hi) ==
    IF lo > hi THEN NaN
    ELSE IF lo = hi THEN s[lo]
    ELSE LET mid == (lo + hi) \div 2
         IN  MinSkipNa(MinRange(s, lo, mid), MinRange(s, mid + 1, hi))

\* Series.min()
SeriesMin(s) == MinRange(s, 1, Len(s))

\* the sum of s[lo..hi]
RECURSIVE RSumRange(_, _, _)
RSumRange(s, lo, hi) ==
    IF lo > hi THEN Zero
    ELSE IF lo = hi THEN s[lo]
    ELSE LET mid == (lo + hi) \div 2
         IN  RAdd(RSumRange(s, lo, mid), RSumRange(s, mid + 1, hi))

\* Series.sum()
RSum(s) == RSumRange(s, 1, Len(s))

\* returns.mean()
Mean(r) == RDiv(RSum(r), Int2Rat(Len(r)))

\* the squared deviations from m
SqDev(r, m) ==
    Column([i \in 1..Len(r) |-> RMul(RSub(r[i], m), RSub(r[i], m))])

\* returns.std(ddof=0) ** 2
PopVariance(r) == RDiv(RSum(SqDev(r, Mean(r))), Int2Rat(Len(r)))

\* a variant that divides by the volatility whatever it is
Sharpe_Unguarded(mean_annual_return, volatility_sq) ==
    <<mean_annual_return, volatility_sq>>

\* mean_annual_return / volatility if volatility > 0 else 0.0
Sharpe(mean_annual_return, volatility_sq) ==
    IF RGt(volatility_sq, Zero) THEN <<mean_annual_return, volatility_sq>>
    ELSE <<Zero, One>>

\* (equity / running_max) - 1.0
Drawdown(equity, running_max) ==
    Column([i \in 1..Len(equity) |->
        RSub(RDiv(equity[i], running_max[i]), One)])

\* Series.fillna(0.0)
FillNa(col) ==
    Column([i \in 1..Len(col) |-> IF IsNaN(col[i]) THEN Zero ELSE col[i]])

\* defined for a non-empty series; equity.iloc[-1] raises on an empty one
compute_metrics(returns) ==
    LET filled == FillNa(returns)
        equity == CumProd1p(filled)
        last == Last(equity)
        periods == Len(filled)
        years == RMax(Rat(periods, WEEKS_PER_YEAR), Rat(1, WEEKS_PER_YEAR))
        running_max == CumMax(equity)
        drawdown == Drawdown(equity, running_max)
        volatility_sq == RMul(PopVariance(filled), Int2Rat(WEEKS_PER_YEAR))
        mean_annual_return == RMul(Mean(filled), Int2Rat(WEEKS_PER_YEAR))
    IN  [cumulative_return |-> RSub(last, One),
         cagr |-> <<last, years>>,
         max_drawdown |-> SeriesMin(drawdown),
         volatility_sq |-> volatility_sq,
         sharpe_ratio |-> Sharpe(mean_annual_return, volatility_sq)]

(***************************************************************************)
(* run_mean_reversion_zscore (strategy.py 48-117).                         *)
(* An optional argument (stop_loss_pct, max_holding_bars) and entry_price  *)
(* are rationals, None being <<0, 0>>.  A std is carried by its square; a  *)
(* zscore is <<num, den_sq>> for num / sqrt(den_sq), NaN being <<NaN, NaN>>.*)
(***************************************************************************)
None == <<0, 0>>
IsNone(x) == x[2] = 0

RECURSIVE SumSqRange(_, _, _)
SumSqRange(s, lo, hi) ==
    IF lo > hi THEN 0 ELSE s[hi] * s[hi] + SumSqRange(s, lo, hi - 1)

\* Series.rolling(window = w, min_periods = w).std() squared: the sample
\* variance (pandas' default ddof = 1) of the last w closes
RollingVar(close, w) ==
    Column([i \in 1..Len(close) |->
        IF i < w \/ w < 2 THEN NaN
        ELSE LET sm == SumRange(close, i - w + 1, i)
                 sq == SumSqRange(close, i - w + 1, i)
             IN  Rat(w * sq - sm * sm, w * (w - 1))])

\* data["std"].where(data["std"] != 0.0)
WhereNonZero(col) ==
    Column([i \in 1..Len(col) |->
        IF NotNa(col[i]) /\ col[i][1] = 0 THEN NaN ELSE col[i]])

\* (close - mean) / std
ZScoreColumn(close, mean, std_sq) ==
    Column([i \in 1..Len(close) |->
        IF IsNaN(mean[i]) \/ IsNaN(std_sq[i]) THEN <<NaN, NaN>>
        ELSE <<RSub(Int2Rat(close[i]), mean[i]), std_sq[i]>>])

\* pd.notna(zscore)
ZReady(z) == NotNa(z[1]) /\ NotNa(z[2])

\* float(zscore) <= t for a defined zscore z and a rational t
ZLe(z, t) ==
    LET nonpos == RLe(z[1], Zero)
        zsq == RMul(z[1], z[1])
        tsq == RMul(RMul(t, t), z[2])
    IN  IF nonpos /\ RGe(t, Zero) THEN TRUE
        ELSE IF ~nonpos /\ RLt(t, Zero) THEN FALSE
        ELSE IF ~nonpos THEN RLe(zsq, tsq)
        ELSE RGe(zsq, tsq)

\* float(zscore) >= t
ZGe(z, t) == ZLe(<<RNeg(z[1]), z[2]>>, RNeg(t))

\* strategy.py 59-64: the columns computed before the scan
MRPrepare(df, lookback) ==
    LET mean == RollingMean(df.close, lookback)
        std_sq == WhereNonZero(RollingVar(df.close, lookback))
    IN  [date |-> df.date, close |-> df.close, ret |-> PctChange(df.close),
         mean |-> mean, std_sq |-> std_sq,
         zscore |-> ZScoreColumn(df.close, mean, std_sq)]

\* strategy.py 67-69: the scan's state before the first row
MRStart == [active_position |-> 0, entry_price |-> None, bars_held |-> 0]

\* a variant whose long entry needs zscore strictly below -entry_z
FlatStep_StrictEntry(st, zscore, close, p) ==
    IF ZReady(zscore) /\ ~ZGe(zscore, RNeg(p.entry_z))
    THEN [active_position |-> 1, entry_price |-> close, bars_held |-> 0]
    ELSE IF ZReady(zscore) /\ p.allow_short /\ ZGe(zscore, p.entry_z)
    THEN [active_position |-> -1, entry_price |-> close, bars_held |-> 0]
    ELSE st

\* a variant that enters short without looking at allow_short
FlatStep_AlwaysShort(st, zscore, close, p) ==
    IF ZReady(zscore) /\ ZLe(zscore, RNeg(p.entry_z))
    THEN [active_position |-> 1, entry_price |-> close, bars_held |-> 0]
    ELSE IF ZReady(zscore) /\ ZGe(zscore, p.entry_z)
    THEN [active_position |-> -1, entry_price |-> close, bars_held |-> 0]
    ELSE st

\* strategy.py 76-84: a row processed while flat
FlatStep(st, zscore, close, p) ==
    IF ZReady(zscore) /\ ZLe(zscore, RNeg(p.entry_z))
    THEN [active_position |-> 1, entry_price |-> close, bars_held |-> 0]
    ELSE IF ZReady(zscore) /\ p.allow_short /\ ZGe(zscore, p.entry_z)
    THEN [active_position |-> -1, entry_price |-> close, bars_held |-> 0]
    ELSE st

\* strategy.py 89-93
ExitSignal(active_position, zscore, p) ==
    \/ active_position > 0 /\ ZReady(zscore) /\ ZGe(zscore, RNeg(p.exit_z))
    \/ active_position < 0 /\ ZReady(zscore) /\ ZLe(zscore, p.exit_z)

\* strategy.py 95-101
StopHit(active_position, entry_price, close, p) ==
    /\ ~IsNone(p.stop_loss_pct)
    /\ ~IsNone(entry_price)
    /\ RGt(entry_price, Zero)
    /\ LET current_pnl == IF active_position > 0
                          THEN RSub(RDiv(close, entry_price), One)
                          ELSE RSub(RDiv(entry_price, close), One)
       IN  RLe(current_pnl, RNeg(p.stop_loss_pct))

\* a variant that exits one bar late: bars_held > max_holding_bars
TimedExit_Late(bars_held, p) ==
    ~IsNone(p.max_holding_bars) /\ RGt(Int2Rat(bars_held), p.max_holding_bars)

\* strategy.py 103
TimedExit(bars_held, p) ==
    ~IsNone(p.max_holding_bars) /\ RGe(Int2Rat(bars_held), p.max_holding_bars)

\* a variant that, having closed the position, runs the entry test on the
\* same bar
HeldStep_Reenter(st, zscore, close, p) ==
    LET held == st.bars_held + 1
        flat == [active_position |-> 0, entry_price |-> None, bars_held |-> 0]
    IN  IF \/ ExitSignal(st.active_position, zscore, p)
           \/ StopHit(st.active_position, st.entry_price, close, p)
           \/ TimedExit(held, p)
        THEN FlatStep(flat, zscore, close, p)
        ELSE [st EXCEPT !.bars_held = held]

\* strategy.py 88-107: a row processed while long or short
HeldStep(st, zscore, close, p) ==
    LET held == st.bars_held + 1
    IN  IF \/ ExitSignal(st.active_position, zscore, p)
           \/ StopHit(st.active_position, st.entry_price, close, p)
           \/ TimedExit(held, p)
        THEN [active_position |-> 0, entry_price |-> None, bars_held |-> 0]
        ELSE [st EXCEPT !.bars_held = held]

\* strategy.py 71-109: one iteration of the scan; the signal appended for
\* the row is the resulting active_position
MRStep(st, zscore, close, p) ==
    IF st.active_position = 0 THEN FlatStep(st, zscore, close, p)
    ELSE HeldStep(st, zscore, close, p)

\* the signal list after the whole scan
RECURSIVE MRScan(_, _, _, _)
MRScan(prep, p, st, i) ==
    IF i > Len(prep.close) THEN <<>>
    ELSE LET nx == MRStep(st, prep.zscore[i], Int2Rat(prep.close[i]), p)
         IN  <<nx.active_position>> \o MRScan(prep, p, nx, i + 1)

\* strategy.py 111-115: the columns computed after the scan
MRFinal(prep, sig, initial_capital) ==
    LET position == ShiftFill(sig)
        strategy_ret == TimesRet(position, prep.ret)
    IN  [date |-> prep.date, close |-> prep.close, ret |-> prep.ret,
         mean |-> prep.mean, std_sq |-> prep.std_sq, zscore |-> prep.zscore,
         signal |-> sig, position |-> position,
         strategy_ret |-> strategy_ret,
         strategy_equity |-> Equity(initial_capital, strategy_ret),
         buy_hold_equity |-> Equity(initial_capital, prep.ret)]

run_mean_reversion_zscore(df, initial_capital, p) ==
    LET prep == MRPrepare(df, p.lookback)
    IN  MRFinal(prep, MRScan(prep, p, MRStart, 1), initial_capital)

(***************************************************************************)
(* Error messages and their classification.  A string is the list of its   *)
(* words, punctuation marks being words of their own; s in message is the  *)
(* test that s occurs in message as a run of consecutive words.            *)
(***************************************************************************)
\* needle in haystack
Contains(haystack, needle) ==
    \E i \in 1..(Len(haystack) - Len(needle) + 1) :
        SubSeq(haystack, i, i + Len(needle) - 1) = needle

\* main.py 232
NoDatesMessage ==
    <<"No", "weekly", "bar", "data", "returned", "for", "selected",
      "tickers", ".">>

\* a variant whose marker is the wording of main.py 232
PortfolioStatus_SelectedTickers(message) ==
    IF Contains(message,
                <<"No", "weekly", "bar", "data", "returned", "for", "selected">>)
    THEN 404 ELSE 502

\* main.py 309: the status of the HTTPException of /portfolio-backtest
PortfolioStatus(message) ==
    IF Contains(message,
                <<"No", "weekly", "bar", "data", "returned", "for", "symbol">>)
    THEN 404 ELSE 502

\* main.py 202: the status of the HTTPException of /backtest
BacktestStatus(message) ==
    IF Contains(message, <<"bar", "data", "returned", "for", "symbol">>)
    THEN 404 ELSE 502

\* str.upper() of one word
UpperWord(w) ==
    CASE w = "bar" -> "BAR"
      [] w = "data" -> "DATA"
      [] w = "returned" -> "RETURNED"
      [] w = "for" -> "FOR"
      [] w = "symbol" -> "SYMBOL"
      [] w = "aapl" -> "AAPL"
      [] OTHER -> w

\* symbol.upper()
Upper(symbol) == Column([i \in 1..Len(symbol) |-> UpperWord(symbol[i])])

\* a number as an f-string prints it
Str(n) ==
    CASE n = 3 -> "3"
      [] n = 200 -> "200"
      [] n = 400 -> "400"
      [] n = 429 -> "429"
      [] n = 500 -> "500"

\* alpaca_data.py 27-28
max_attempts == 3
retryable_status_codes == {429, 500, 502, 503, 504}

\* alpaca_data.py 77-79
TimeoutMessage(symbol) ==
    <<"Alpaca", "data", "request", "timed", "out", "for">> \o symbol
    \o <<"after", Str(max_attempts), "attempts", ".">>

\* alpaca_data.py 89
UnableMessage(symbol) ==
    <<"Unable", "to", "complete", "Alpaca", "data", "request", "for">>
    \o symbol \o <<".">>

\* alpaca_data.py 92-95
FailedMessage(symbol, resp) ==
    <<"Alpaca", "data", "request", "failed", "for">> \o symbol
    \o <<":", Str(resp.status_code)>> \o resp.text

\* alpaca_data.py 112
NoBarsMessage(timeframe_label, symbol) ==
    <<"No", timeframe_label, "bar", "data", "returned", "for", "symbol", "'">>
    \o Upper(symbol) \o <<"'", ".">>

(***************************************************************************)
(* AlpacaDataService._get_bars (alpaca_data.py 46-121): what one attempt   *)
(* of a page request can bring, and the frame built from the bars.  A bar  *)
(* is <<date, close>>.                                                     *)
(***************************************************************************)
\* client.get raised httpx.TimeoutException
Timeout == [kind |-> "timeout"]

IsTimeout(outcome) == outcome.kind = "timeout"

\* alpaca_data.py 83: the attempt is made again
Retries_AnyFailure(resp, n) ==
    resp.status_code # 200 /\ n < max_attempts

Retries(resp, n) ==
    resp.status_code \in retryable_status_codes /\ n < max_attempts

\* drop_duplicates(subset=["date"]): the first bar of every date is kept
RECURSIVE DropDuplicates(_)
DropDuplicates(bars) ==
    IF bars = <<>> THEN <<>>
    ELSE LET n == Len(bars)
             front == DropDuplicates(SubSeq(bars, 1, n - 1))
         IN  IF \E i \in 1..(n - 1) : bars[i][1] = bars[n][1]
             THEN front ELSE Append(front, bars[n])

\* d1 < d2
DateLt(d1, d2) == d1 # d2 /\ DateGe(d2, d1)

\* sort_values("date") of bars with distinct dates
RECURSIVE SortBars(_)
SortBars(bars) ==
    IF bars = <<>> THEN <<>>
    ELSE LET k == CHOOSE i \in 1..Len(bars) :
                      \A j \in 1..Len(bars) : ~DateLt(bars[j][1], bars[i][1])
             rest == [i \in 1..(Len(bars) - 1) |->
                         IF i < k THEN bars[i] ELSE bars[i + 1]]
         IN  <<bars[k]>> \o SortBars(rest)

\* alpaca_data.py 114-121
BarsFrame(bars) ==
    LET kept == SortBars(DropDuplicates(bars))
    IN  [date |-> Column([i \in 1..Len(kept) |-> kept[i][1]]),
         close |-> Column([i \in 1..Len(kept) |-> kept[i][2]])]

(***************************************************************************)
(* portfolio_backtest (main.py 212-310): the per-ticker inputs, the wide   *)
(* frames on the unioned date axis and one iteration of the weights loop.  *)
(* tickers is the normalised list of distinct symbols; a wide frame is a   *)
(* function from ticker to column.                                         *)
(***************************************************************************)
MomentumWindow == 26
MomentumMinPeriods == 4

\* the elements of a list, as a set
Range(seq) == {seq[i] : i \in 1..Len(seq)}

\* main.py 224-228: run_sma_crossover(ticker_df, initial_capital=1.0) with
\* the default position_mode, for every ticker
StrategyInputs(frames) ==
    Frame([t \in DOMAIN frames |->
        LET out == run_sma_crossover(frames[t], 1, "long_only")
        IN  [date |-> out.date, ret |-> out.ret, position |-> out.position]])

\* sorted(S) for a set of dates
RECURSIVE SortedDates(_)
SortedDates(S) ==
    IF S = {} THEN <<>>
    ELSE LET first == CHOOSE x \in S : \A y \in S : DateGe(y, x)
         IN  <<first>> \o SortedDates(S \ {first})

\* main.py 230: the unioned date axis
AllDates(strategy_inputs) ==
    SortedDates(UNION {Range(strategy_inputs[t].date) :
                          t \in DOMAIN strategy_inputs})

\* the row of df dated d, 0 when df has no such row
RowOf(df, d) ==
    IF \E i \in 1..Len(df.date) : df.date[i] = d
    THEN CHOOSE i \in 1..Len(df.date) : df.date[i] = d
    ELSE 0

\* main.py 236-242: one column of every ticker on the date axis, a missing
\* row filled with fill
Wide(strategy_inputs, col, all_dates, fill) ==
    Frame([t \in DOMAIN strategy_inputs |->
        Column([j \in 1..Len(all_dates) |->
            LET i == RowOf(strategy_inputs[t], all_dates[j])
            IN  IF i = 0 THEN fill ELSE strategy_inputs[t][col][i]])])

\* np.prod of (1.0 + r) over rows lo..hi
RECURSIVE ProdRange(_, _, _)
ProdRange(r, lo, hi) ==
    IF lo > hi THEN One
    ELSE IF lo = hi THEN RAdd(One, r[lo])
    ELSE LET mid == (lo + hi) \div 2
         IN  RMul(ProdRange(r, lo, mid), ProdRange(r, mid + 1, hi))

\* main.py 243: (1.0 + r).rolling(window=26, min_periods=4).apply(np.prod)
\* - 1.0 of one column
Momentum(r) ==
    Column([j \in 1..Len(r) |->
        IF j < MomentumMinPeriods THEN NaN
        ELSE LET lo == IF j > MomentumWindow THEN j - MomentumWindow + 1
                       ELSE 1
             IN  RSub(ProdRange(r, lo, j), One)])

MomentumWide(returns_wide) ==
    Frame([t \in DOMAIN returns_wide |-> Momentum(returns_wide[t])])

\* main.py 251: the tickers with a position > 0 on row j, in list order
RECURSIVE ActiveFrom(_, _, _, _)
ActiveFrom(tickers, positions_wide, j, i) ==
    IF i > Len(tickers) THEN <<>>
    ELSE (IF positions_wide[tickers[i]][j] > 0 THEN <<tickers[i]>> ELSE <<>>)
         \o ActiveFrom(tickers, positions_wide, j, i + 1)

Active(tickers, positions_wide, j) == ActiveFrom(tickers, positions_wide, j, 1)

\* the sort key of main.py 256-258 compared: a > b, an undefined momentum
\* standing for -inf
KeyGt(a, b) == NotNa(a) /\ (IsNaN(b) \/ RGt(a, b))

\* main.py 254-260: sorted(active, key=momentum, reverse=True); the sort is
\* stable, tickers with equal keys keep their order
Ranked(active, momentum_wide, j) ==
    LET key(t) == momentum_wide[t][j]
        before(a, b) ==
            \/ KeyGt(key(active[a]), key(active[b]))
            \/ ~KeyGt(key(active[b]), key(active[a])) /\ a < b
        rank(a) == Cardinality({b \in 1..Len(active) : before(b, a)})
    IN  Column([r \in 1..Len(active) |->
            active[CHOOSE a \in 1..Len(active) : rank(a) = r - 1]])

\* main.py 245
TopN(top_n, tickers) == IF top_n < Len(tickers) THEN top_n ELSE Len(tickers)

\* a variant that never cuts the active tickers down to top_n
Selected_Uncut(tickers, active, momentum_wide, j, use_ranking, top_n) ==
    IF use_ranking /\ active # <<>>
    THEN Ranked(active, momentum_wide, j)
    ELSE active

\* main.py 252-261: the selected tickers of row j
Selected(tickers, active, momentum_wide, j, use_ranking, top_n) ==
    IF use_ranking /\ active # <<>>
    THEN LET ranked == Ranked(active, momentum_wide, j)
             n == TopN(top_n, tickers)
         IN  SubSeq(ranked, 1, IF n < Len(ranked) THEN n ELSE Len(ranked))
    ELSE active

\* main.py 263-267
Weights(tickers, selected) ==
    Frame([t \in Range(tickers) |->
        IF t \in Range(selected) THEN Rat(1, Len(selected)) ELSE Zero])

\* main.py 269-271: sum(weights[ticker] * returns[ticker]) over tickers i..
RECURSIVE WeightedSum(_, _, _, _, _)
WeightedSum(tickers, weights, returns_wide, j, i) ==
    IF i > Len(tickers) THEN Zero
    ELSE RAdd(RMul(weights[tickers[i]], returns_wide[tickers[i]][j]),
              WeightedSum(tickers, weights, returns_wide, j, i + 1))

\* main.py 279: returns_wide.mean(axis=1)
BasketRet(tickers, returns_wide, all_dates) ==
    LET ones == Weights(tickers, tickers)
    IN  Column([j \in 1..Len(all_dates) |->
            WeightedSum(tickers, ones, returns_wide, j, 1)])

(***************************************************************************)
(* Inputs.                                                                 *)
(***************************************************************************)
\* the first bar's date, and the days between bars (weekly bars, or a
\* thinly traded series with a bar every 180 days)
StartDate == <<2020, 1, 3>>
BarSpacings == {7, 180}

DateColumn(n, spacing) ==
    Column([i \in 1..n |-> AddDays(StartDate, (i - 1) * spacing)])

\* a price path with one level change: a up to bar k, b after it
StepSeries(n, k, a, b) == Column([i \in 1..n |-> IF i <= k THEN a ELSE b])

\* the dates of the longest series, for each spacing
Dates == Frame([g \in BarSpacings |-> DateColumn(MaxBars, g)])

\* a price path with one spike: b on bar k, a on every other bar
SpikeSeries(n, k, a, b) == Column([i \in 1..n |-> IF i = k THEN b ELSE a])

\* the price paths of n bars
Paths(n) ==
    {StepSeries(n, k, a, b) : k \in 1..n, a \in Closes, b \in Closes}
    \cup {SpikeSeries(n, k, a, b) : k \in 1..n, a \in Closes, b \in Closes}

SmaFrames ==
    UNION {{[date |-> SubSeq(Dates[g], 1, n), close |-> c] :
               c \in Paths(n), g \in BarSpacings} : n \in 1..MaxBars}

MRFrames ==
    UNION {{[date |-> DateColumn(n, 7), close |-> Column(c)] :
               c \in [1..n -> Closes]} : n \in 1..MaxMRBars}

PositionModes == {"long_only", "long_short"}

MRParams ==
    [lookback : {3},
     entry_z : {<<1, 1>>},
     exit_z : {<<1, 2>>},
     stop_loss_pct : {None, <<1, 4>>},
     max_holding_bars : {None, <<1, 1>>, <<2, 1>>},
     allow_short : BOOLEAN]
    \cup [lookback : {3},
          entry_z : {<<11, 10>>},
          exit_z : {<<1, 2>>},
          stop_loss_pct : {None},
          max_holding_bars : {None},
          allow_short : {TRUE}]

\* sample weekly returns: a loss, none, a gain, and a missing value
Returns == {<<-1, 2>>, Zero, <<1, 2>>, NaN}
ReturnSeries ==
    UNION {{Column(r) : r \in [1..n -> Returns]} : n \in 0..MaxReturns}

\* the normalised ticker lists of a portfolio request
TickerLists == {<<"AAA">>, <<"AAA", "BBB">>, <<"AAA", "BBB", "CCC">>}

\* what get_weekly_bars returns to portfolio_backtest for one ticker, always
\* with at least one bar (alpaca_data.py 111-112): weekly bars whose price
\* changes level four bars before the longest series ends (a rise, a larger
\* rise, a fall), the rise also one bar short
PortfolioFrames ==
    {[date |-> SubSeq(Dates[7], 1, MaxBars),
      close |-> StepSeries(MaxBars, MaxBars - 4, lv[1], lv[2])] :
         lv \in {<<1, 2>>, <<1, 3>>, <<2, 1>>}}
    \cup {[date |-> SubSeq(Dates[7], 1, MaxBars - 1),
           close |-> StepSeries(MaxBars - 1, MaxBars - 4, 1, 2)]}

\* get_weekly_bars found no bar for the ticker and raises (alpaca_data.py
\* 111-112)
NoBarsRaised == [raises |-> "no_bars"]

Raises(outcome) == "raises" \in DOMAIN outcome

\* what get_weekly_bars does for one ticker of the portfolio: it returns a
\* frame or raises
TickerOutcomes == PortfolioFrames \cup {NoBarsRaised}

\* what get_weekly_bars("SPY", ...) brings (main.py 296): a frame, or an
\* AlpacaDataError with its message
SpyFrames ==
    {[date |-> SubSeq(Dates[7], 1, MaxBars),
      close |-> StepSeries(MaxBars, MaxBars - 4, lv[1], lv[2])] :
         lv \in {<<1, 2>>, <<2, 1>>}}

SpyOutcomes ==
    [kind : {"frame"}, df : SpyFrames]
    \cup [kind : {"error"},
          message : {NoBarsMessage("weekly", <<"SPY">>),
                     FailedMessage(<<"SPY">>,
                         [status_code |-> 429,
                          text |-> <<"rate", "limited">>])}]

PortfolioCalls ==
    UNION {[fn : {"portfolio_backtest"}, tickers : {tickers},
            frames : [Range(tickers) -> TickerOutcomes],
            use_ranking : BOOLEAN, top_n : 1..3,
            initial_capital : Capitals] : tickers \in TickerLists}

\* the pages one call of _get_bars may ask for
MaxPages == 2

\* the ticker of a request as the client sent it
ClientSymbols == {<<"aapl">>, <<"bar", "data", "returned", "for", "symbol">>}

\* the bars of one page: none, one bar, or three bars out of order with a
\* date twice
BarLists ==
    {<<>>,
     <<<<StartDate, 1>>>>,
     <<<<AddDays(StartDate, 7), 2>>, <<StartDate, 3>>,
       <<AddDays(StartDate, 7), 1>>>>}

\* what client.get can bring: a timeout, a 200 response with bars and
\* perhaps a next page, or a failure status with its text
Responses ==
    [kind : {"response"}, status_code : {200}, text : {<<>>},
     bars : BarLists, next_page_token : BOOLEAN]
    \cup [kind : {"response"}, status_code : {400, 429, 500},
          text : {<<"rate", "limited">>}, bars : {<<>>},
          next_page_token : {FALSE}]

Outcomes == {Timeout} \cup Responses

\* the calls of _get_bars: from /backtest with the ticker as sent and either
\* timeframe (main.py 130-136), from /portfolio-backtest with a normalised
\* ticker and weekly bars (main.py 218, 225)
FetchCalls ==
    [fn : {"get_bars"}, endpoint : {"backtest"}, symbol : ClientSymbols,
     timeframe_label : {"daily", "weekly"}]
    \cup [fn : {"get_bars"}, endpoint : {"portfolio_backtest"},
          symbol : {Upper(s) : s \in ClientSymbols},
          timeframe_label : {"weekly"}]

\* the series of test_strategy.py 9-16: 30 weekly bars, 100 rising by 1
RampBars == 30
RampStart == 100
RampFrame ==
    [date |-> DateColumn(RampBars, 7),
     close |-> Column([i \in 1..RampBars |-> RampStart + (i - 1)])]

\* the calls of the engines: POST /backtest (main.py 122-205) on a price
\* series, run_mean_reversion_zscore on a price series, and compute_metrics
\* on a return series
Calls ==
    [fn : {"backtest"}, df : SmaFrames, initial_capital : Capitals,
     position_mode : PositionModes]
    \cup [fn : {"mean_reversion"}, df : MRFrames, initial_capital : Capitals,
          p : MRParams]
    \cup [fn : {"metrics"}, returns : ReturnSeries]
    \cup [fn : {"run_sma_crossover"}, df : {RampFrame},
          initial_capital : Capitals, position_mode : PositionModes]

(***************************************************************************)
(* State.                                                                  *)
(***************************************************************************)
VARIABLES
    pc,               \* where the call stands
    call,             \* the function called and its arguments
    data,             \* the engine's DataFrame
    signal,           \* run_mean_reversion_zscore: the signal list
    active_position,  \* run_mean_reversion_zscore: scan state
    entry_price,
    bars_held,
    window,           \* the windowed and rebased DataFrame
    metrics,          \* the MetricSummary values computed
    strategy_inputs,  \* portfolio_backtest: ticker -> engine output
    all_dates,        \* portfolio_backtest: the unioned date axis
    returns_wide,     \* portfolio_backtest: ticker -> returns on the axis
    positions_wide,   \* portfolio_backtest: ticker -> positions on the axis
    momentum_wide,    \* portfolio_backtest: ticker -> momentum on the axis
    portfolio_rets,   \* portfolio_backtest: the returns appended so far
    active,           \* portfolio_backtest: active of the last iteration
    selected,         \* portfolio_backtest: selected of the last iteration
    latest_weights,   \* portfolio_backtest: ticker -> weight
    latest_in_market, \* portfolio_backtest: ticker -> in active
    horizon,          \* portfolio_backtest: payload.horizon once it is read
    benchmark,        \* portfolio_backtest: spy_curve_df
    page,             \* _get_bars: the pages asked for so far
    attempt,          \* _get_bars: the attempt of the retry loop
    outcomes,         \* _get_bars: what the attempts for this page brought
    response,         \* _get_bars: the last response received, or None
    page_token,       \* _get_bars: whether a next page was announced
    all_bars,         \* _get_bars: the bars collected so far
    error,            \* the message of the AlpacaDataError raised
    status_code       \* the status of the HTTPException raised

engineVars == <<data, signal, active_position, entry_price, bars_held,
                window, metrics>>
portfolioVars == <<strategy_inputs, all_dates, returns_wide, positions_wide,
                   momentum_wide, portfolio_rets, active, selected,
                   latest_weights, latest_in_market>>
benchmarkVars == <<horizon, benchmark>>
fetchVars == <<page, attempt, outcomes, response, page_token, all_bars>>
errorVars == <<error, status_code>>

vars == <<pc, call, engineVars, portfolioVars, benchmarkVars, fetchVars,
          errorVars>>

NoFrame == [date |-> <<>>]
NoMetrics == <<>>
\* response = None, alpaca_data.py 67
NoResponse == [kind |-> "none"]

\* the state in which the call c starts
Start(c) ==
    /\ call = c
    /\ pc = "called"
    /\ data = NoFrame
    /\ signal = <<>>
    /\ active_position = 0
    /\ entry_price = None
    /\ bars_held = 0
    /\ window = NoFrame
    /\ metrics = NoMetrics
    /\ strategy_inputs = <<>>
    /\ all_dates = <<>>
    /\ returns_wide = <<>>
    /\ positions_wide = <<>>
    /\ momentum_wide = <<>>
    /\ portfolio_rets = <<>>
    /\ active = <<>>
    /\ selected = <<>>
    /\ latest_weights = <<>>
    /\ latest_in_market = <<>>
    /\ horizon = ""
    /\ benchmark = NoFrame
    /\ page = 0
    /\ attempt = 0
    /\ outcomes = <<>>
    /\ response = NoResponse
    /\ page_token = FALSE
    /\ all_bars = <<>>
    /\ error = <<>>
    /\ status_code = 0

Init == \E c \in Calls : Start(c)

(***************************************************************************)
(* POST /backtest: run_sma_crossover, then the horizon window, then the    *)
(* metrics of the windowed return columns (main.py 137-151).               *)
(***************************************************************************)
RunSma ==
    /\ pc = "called" /\ call.fn \in {"backtest", "run_sma_crossover"}
    /\ data' = run_sma_crossover(call.df, call.initial_capital,
                                 call.position_mode)
    /\ pc' = "ran"
    /\ UNCHANGED <<call, signal, active_position, entry_price, bars_held,
                   window, metrics>>
    /\ UNCHANGED <<portfolioVars, fetchVars, errorVars>>
    /\ UNCHANGED benchmarkVars

ApplyHorizon ==
    /\ pc = "ran" /\ call.fn = "backtest"
    /\ \E h \in Horizons :
          window' = apply_horizon_window_and_rebase(
                        data, h, call.initial_capital,
                        {"ret", "strategy_ret"},
                        {"strategy_equity", "buy_hold_equity"})
    /\ pc' = "windowed"
    /\ UNCHANGED <<call, data, signal, active_position, entry_price,
                   bars_held, metrics>>
    /\ UNCHANGED <<portfolioVars, fetchVars, errorVars>>
    /\ UNCHANGED benchmarkVars

BacktestMetrics ==
    /\ pc = "windowed" /\ call.fn = "backtest"
    /\ metrics' = [strategy |-> compute_metrics(window.strategy_ret),
                   buy_hold |-> compute_metrics(window.ret)]
    /\ pc' = "done"
    /\ UNCHANGED <<call, data, signal, active_position, entry_price,
                   bars_held, window>>
    /\ UNCHANGED <<portfolioVars, fetchVars, errorVars>>
    /\ UNCHANGED benchmarkVars

(***************************************************************************)
(* run_mean_reversion_zscore: the columns before the scan, one action per  *)
(* row of the scan, the columns after it.                                  *)
(***************************************************************************)
MRBegin ==
    /\ pc = "called" /\ call.fn = "mean_reversion"
    /\ data' = MRPrepare(call.df, call.p.lookback)
    /\ signal' = <<>>
    /\ active_position' = MRStart.active_position
    /\ entry_price' = MRStart.entry_price
    /\ bars_held' = MRStart.bars_held
    /\ pc' = "scan"
    /\ UNCHANGED <<call, window, metrics>>
    /\ UNCHANGED <<portfolioVars, fetchVars, errorVars>>
    /\ UNCHANGED benchmarkVars

MRBar ==
    /\ pc = "scan" /\ Len(signal) < Len(data.close)
    /\ LET i == Len(signal) + 1
           st == [active_position |-> active_position,
                  entry_price |-> entry_price, bars_held |-> bars_held]
           nx == MRStep(st, data.zscore[i], Int2Rat(data.close[i]), call.p)
       IN  /\ active_position' = nx.active_position
           /\ entry_price' = nx.entry_price
           /\ bars_held' = nx.bars_held
           /\ signal' = Append(signal, nx.active_position)
    /\ UNCHANGED <<pc, call, data, window, metrics>>
    /\ UNCHANGED <<portfolioVars, fetchVars, errorVars>>
    /\ UNCHANGED benchmarkVars

MRFinish ==
    /\ pc = "scan" /\ Len(signal) = Len(data.close)
    /\ data' = MRFinal(data, signal, call.initial_capital)
    /\ pc' = "ran"
    /\ UNCHANGED <<call, signal, active_position, entry_price, bars_held,
                   window, metrics>>
    /\ UNCHANGED <<portfolioVars, fetchVars, errorVars>>
    /\ UNCHANGED benchmarkVars

(***************************************************************************)
(* compute_metrics called on a return series.                              *)
(***************************************************************************)
Metrics ==
    /\ pc = "called" /\ call.fn = "metrics"
    /\ IF Len(call.returns) = 0
       THEN \* equity.iloc[-1] on an empty Series raises IndexError
            pc' = "IndexError" /\ metrics' = metrics
       ELSE pc' = "done" /\ metrics' = compute_metrics(call.returns)
    /\ UNCHANGED <<call, data, signal, active_position, entry_price,
                   bars_held, window>>
    /\ UNCHANGED <<portfolioVars, fetchVars, errorVars>>
    /\ UNCHANGED benchmarkVars

(***************************************************************************)
(* POST /portfolio-backtest: the inputs and wide frames, one action per     *)
(* date of the weights loop, the portfolio curves (main.py 223-283), and   *)
(* the handler of AlpacaDataError (main.py 307-310).                       *)
(***************************************************************************)
IsPortfolio == call.fn = "portfolio_backtest"

\* the place in the list of the first ticker whose fetch raises
FirstRaisingIndex ==
    CHOOSE k \in 1..Len(call.tickers) :
        /\ Raises(call.frames[call.tickers[k]])
        /\ \A m \in 1..(k - 1) : ~Raises(call.frames[call.tickers[m]])

\* the first ticker of the list whose fetch raises
FirstRaising == call.tickers[FirstRaisingIndex]

\* the frames of the tickers fetched before the first raise
FetchedBeforeRaise ==
    [t \in {call.tickers[m] : m \in 1..(FirstRaisingIndex - 1)} |->
        call.frames[t]]

PortfolioInputs ==
    /\ pc = "called" /\ IsPortfolio
    /\ LET inputs == StrategyInputs(call.frames)
           dates == AllDates(inputs)
           returns == Wide(inputs, "ret", dates, Zero)
       IN  IF \E i \in 1..Len(call.tickers) :
                 Raises(call.frames[call.tickers[i]])
           THEN \* main.py 224-228: the loop ends at the first ticker whose
                \* fetch raises, with the inputs of the tickers before it
                /\ strategy_inputs' = StrategyInputs(FetchedBeforeRaise)
                /\ error' = NoBarsMessage("weekly", <<FirstRaising>>)
                /\ pc' = "raised"
                /\ UNCHANGED <<all_dates, returns_wide, positions_wide,
                               momentum_wide, portfolio_rets, active,
                               selected, latest_weights, latest_in_market,
                               status_code>>
           ELSE IF dates = <<>>
           THEN /\ strategy_inputs' = inputs
                /\ all_dates' = dates
                /\ error' = NoDatesMessage
                /\ pc' = "raised"
                /\ UNCHANGED <<returns_wide, positions_wide, momentum_wide,
                               portfolio_rets, active, selected,
                               latest_weights, latest_in_market, status_code>>
           ELSE /\ strategy_inputs' = inputs
                /\ all_dates' = dates
                /\ returns_wide' = returns
                /\ positions_wide' = Wide(inputs, "position", dates, 0)
                /\ momentum_wide' = MomentumWide(returns)
                /\ portfolio_rets' = <<>>
                /\ latest_weights' = Weights(call.tickers, <<>>)
                /\ latest_in_market' = [t \in Range(call.tickers) |-> FALSE]
                /\ pc' = "dates"
                /\ UNCHANGED <<active, selected, errorVars>>
    /\ UNCHANGED <<call, engineVars, fetchVars>>
    /\ UNCHANGED benchmarkVars

PortfolioDate ==
    /\ pc = "dates" /\ Len(portfolio_rets) < Len(all_dates)
    /\ LET j == Len(portfolio_rets) + 1
           act == Active(call.tickers, positions_wide, j)
           sel == Selected(call.tickers, act, momentum_wide, j,
                           call.use_ranking, call.top_n)
           weights == Weights(call.tickers, sel)
       IN  /\ active' = act
           /\ selected' = sel
           /\ portfolio_rets' =
                 Append(portfolio_rets,
                        WeightedSum(call.tickers, weights, returns_wide, j, 1))
           /\ latest_weights' = weights
           /\ latest_in_market' =
                 [t \in Range(call.tickers) |-> t \in Range(act)]
    /\ UNCHANGED <<pc, call, engineVars, fetchVars, errorVars, strategy_inputs,
                   all_dates, returns_wide, positions_wide, momentum_wide>>
    /\ UNCHANGED benchmarkVars

PortfolioCurves ==
    /\ pc = "dates" /\ Len(portfolio_rets) = Len(all_dates)
    /\ LET basket_ret == BasketRet(call.tickers, returns_wide, all_dates)
       IN  data' = [date |-> all_dates,
                    strategy_ret |-> portfolio_rets,
                    basket_ret |-> basket_ret,
                    strategy_equity |->
                        Equity(call.initial_capital, portfolio_rets),
                    buy_hold_equity |->
                        Equity(call.initial_capital, basket_ret)]
    /\ pc' = "aggregated"
    /\ UNCHANGED <<call, signal, active_position, entry_price, bars_held,
                   window, metrics, portfolioVars, fetchVars, errorVars>>
    /\ UNCHANGED benchmarkVars

\* main.py 285-291: the horizon window of the portfolio curves
PortfolioWindow ==
    /\ pc = "aggregated" /\ IsPortfolio
    /\ \E h \in Horizons :
          /\ horizon' = h
          /\ window' = apply_horizon_window_and_rebase(
                           data, h, call.initial_capital,
                           {"strategy_ret", "basket_ret"},
                           {"strategy_equity", "buy_hold_equity"})
    /\ pc' = "windowed"
    /\ UNCHANGED <<call, data, signal, active_position, entry_price,
                   bars_held, metrics, benchmark, portfolioVars, fetchVars,
                   errorVars>>

\* main.py 293-294
PortfolioMetrics ==
    /\ pc = "windowed" /\ IsPortfolio
    /\ metrics' = [strategy |-> compute_metrics(window.strategy_ret),
                   buy_hold |-> compute_metrics(window.basket_ret)]
    /\ pc' = "measured"
    /\ UNCHANGED <<call, data, signal, active_position, entry_price,
                   bars_held, window, benchmarkVars, portfolioVars, fetchVars,
                   errorVars>>

\* main.py 296-305: the SPY benchmark; the fetch may raise AlpacaDataError,
\* and compute_metrics raises IndexError on the curve of an empty frame
PortfolioBenchmark ==
    /\ pc = "measured" /\ IsPortfolio
    /\ \E spy \in SpyOutcomes :
          IF spy.kind = "error"
          THEN /\ error' = spy.message
               /\ pc' = "raised"
               /\ UNCHANGED <<benchmark, metrics>>
          ELSE LET spy_curve_df ==
                       apply_horizon_window_and_rebase(
                           buy_and_hold(spy.df, call.initial_capital),
                           horizon, call.initial_capital, {"ret"}, {"equity"})
               IN  /\ benchmark' = spy_curve_df
                   /\ IF Len(spy_curve_df.ret) = 0
                      THEN pc' = "IndexError" /\ metrics' = metrics
                      ELSE /\ pc' = "done"
                           /\ metrics' =
                                 [strategy |-> metrics.strategy,
                                  buy_hold |-> metrics.buy_hold,
                                  benchmark |->
                                      compute_metrics(spy_curve_df.ret)]
                   /\ error' = error
    /\ UNCHANGED <<call, data, signal, active_position, entry_price,
                   bars_held, window, horizon, portfolioVars, fetchVars,
                   status_code>>

PortfolioError ==
    /\ pc = "raised" /\ IsPortfolio
    /\ status_code' = PortfolioStatus(error)
    /\ pc' = "http_error"
    /\ UNCHANGED <<call, engineVars, portfolioVars, fetchVars, error>>
    /\ UNCHANGED benchmarkVars

PortfolioInit == \E c \in PortfolioCalls : Start(c)

PortfolioNext ==
    \/ PortfolioInputs
    \/ PortfolioDate
    \/ PortfolioCurves
    \/ PortfolioWindow
    \/ PortfolioMetrics
    \/ PortfolioBenchmark
    \/ PortfolioError

PortfolioSpec == PortfolioInit /\ [][PortfolioNext]_vars

(***************************************************************************)
(* AlpacaDataService._get_bars (alpaca_data.py 58-121) called from an      *)
(* endpoint, and the endpoint's handler of AlpacaDataError (main.py        *)
(* 200-203, 307-310).                                                      *)
(***************************************************************************)
IsFetch == call.fn = "get_bars"

\* alpaca_data.py 63-68: a page request starts with its first attempt
BeginPage ==
    /\ IsFetch /\ pc \in {"called", "page"}
    /\ page' = page + 1
    /\ response' = NoResponse
    /\ attempt' = 1
    /\ outcomes' = <<>>
    /\ pc' = "request"
    /\ UNCHANGED <<call, engineVars, portfolioVars, page_token, all_bars,
                   errorVars>>
    /\ UNCHANGED benchmarkVars

\* alpaca_data.py 69-86: one attempt
Request ==
    /\ IsFetch /\ pc = "request"
    /\ \E outcome \in Outcomes :
          /\ ~IsTimeout(outcome) /\ outcome.next_page_token
                => page < MaxPages
          /\ outcomes' = Append(outcomes, outcome)
          /\ IF IsTimeout(outcome)
             THEN IF attempt = max_attempts
                  THEN /\ error' = TimeoutMessage(call.symbol)
                       /\ pc' = "raised"
                       /\ UNCHANGED <<attempt, response>>
                  ELSE /\ attempt' = attempt + 1
                       /\ UNCHANGED <<pc, response, error>>
             ELSE /\ response' = outcome
                  /\ IF Retries(outcome, attempt)
                     THEN attempt' = attempt + 1 /\ pc' = pc
                     ELSE attempt' = attempt /\ pc' = "responded"
                  /\ error' = error
    /\ UNCHANGED <<call, engineVars, portfolioVars, page, page_token,
                   all_bars, status_code>>
    /\ UNCHANGED benchmarkVars

\* alpaca_data.py 88-109: the response that ended the attempts
Respond ==
    /\ IsFetch /\ pc = "responded"
    /\ IF response = NoResponse
       THEN /\ error' = UnableMessage(call.symbol)
            /\ pc' = "raised"
            /\ UNCHANGED <<page_token, all_bars>>
       ELSE IF response.status_code # 200
       THEN /\ error' = FailedMessage(call.symbol, response)
            /\ pc' = "raised"
            /\ UNCHANGED <<page_token, all_bars>>
       ELSE /\ all_bars' = all_bars \o response.bars
            /\ page_token' = response.next_page_token
            /\ pc' = IF response.next_page_token THEN "page" ELSE "collected"
            /\ error' = error
    /\ UNCHANGED <<call, engineVars, portfolioVars, page, attempt, outcomes,
                   response, status_code>>
    /\ UNCHANGED benchmarkVars

\* alpaca_data.py 111-121
Finish ==
    /\ IsFetch /\ pc = "collected"
    /\ IF all_bars = <<>>
       THEN /\ error' = NoBarsMessage(call.timeframe_label, call.symbol)
            /\ pc' = "raised"
            /\ data' = data
       ELSE /\ data' = BarsFrame(all_bars)
            /\ pc' = "fetched"
            /\ error' = error
    /\ UNCHANGED <<call, signal, active_position, entry_price, bars_held,
                   window, metrics, portfolioVars, fetchVars, status_code>>
    /\ UNCHANGED benchmarkVars

\* main.py 200-203 and 307-310
FetchError ==
    /\ IsFetch /\ pc = "raised"
    /\ status_code' = IF call.endpoint = "backtest"
                      THEN BacktestStatus(error)
                      ELSE PortfolioStatus(error)
    /\ pc' = "http_error"
    /\ UNCHANGED <<call, engineVars, portfolioVars, fetchVars, error>>
    /\ UNCHANGED benchmarkVars

FetchInit == \E c \in FetchCalls : Start(c)

FetchNext ==
    \/ BeginPage
    \/ Request
    \/ Respond
    \/ Finish
    \/ FetchError

FetchSpec == FetchInit /\ [][FetchNext]_vars

Next ==
    \/ RunSma
    \/ ApplyHorizon
    \/ BacktestMetrics
    \/ MRBegin
    \/ MRBar
    \/ MRFinish
    \/ Metrics

Spec == Init /\ [][Next]_vars

(***************************************************************************)
(* Properties.                                                             *)
(***************************************************************************)
EngineRan == pc = "ran"
IsBacktest == call.fn = "backtest"
IsMR == call.fn = "mean_reversion"
Bars(d) == 1..Len(d.close)

\* C1: in both engines position[0] = 0, position[t] = signal[t-1] for
\* t >= 1, and strategy_ret[t] = position[t] * ret[t] for every t.
C1_PositionIsLaggedSignal ==
    EngineRan =>
        /\ Len(data.position) = Len(call.df.close)
        /\ Len(data.signal) = Len(call.df.close)
        /\ \A t \in Bars(data) :
              /\ data.position[t] = (IF t = 1 THEN 0 ELSE data.signal[t - 1])
              /\ data.strategy_ret[t]
                    = RMul(Int2Rat(data.position[t]), data.ret[t])

\* a mean-reversion run whose last bar is held short through a price move
C1_Witness ==
    /\ EngineRan /\ IsMR
    /\ \E t \in Bars(data) :
          /\ t > 1
          /\ data.signal[t - 1] = -1
          /\ data.position[t] = -1
          /\ data.ret[t] # Zero
          /\ data.strategy_ret[t] = RNeg(data.ret[t])

\* the row the next MRBar processes
ScanRow == Len(signal) + 1
ScanStep == pc = "scan" /\ Len(signal') = Len(signal) + 1
LastSignal(s) == s[Len(s)]

\* the three exit conditions of section 4.3, for the row being processed
C2_MeanReversionExit ==
    LET z == data.zscore[ScanRow]
    IN  \/ /\ active_position = 1 /\ ZReady(z)
           /\ ZGe(z, RNeg(call.p.exit_z))
        \/ /\ active_position = -1 /\ ZReady(z)
           /\ ZLe(z, call.p.exit_z)

C2_StopLoss ==
    LET close == Int2Rat(data.close[ScanRow])
        pnl == IF active_position = 1
               THEN RSub(RDiv(close, entry_price), One)
               ELSE RSub(RDiv(entry_price, close), One)
    IN  /\ ~IsNone(call.p.stop_loss_pct)
        /\ ~IsNone(entry_price) /\ RGt(entry_price, Zero)
        /\ RLe(pnl, RNeg(call.p.stop_loss_pct))

C2_TimedExit ==
    /\ ~IsNone(call.p.max_holding_bars)
    /\ RGe(Int2Rat(bars_held + 1), call.p.max_holding_bars)

\* C2: a bar processed while Long or Short on which an exit condition holds
\* leaves the scan Flat with entry_price cleared and bars_held = 0 and
\* records signal 0; and the recorded signal never goes from +1 directly
\* to -1 or from -1 directly to +1 on consecutive bars.
C2_ExitGoesFlat ==
    [][ScanStep =>
          /\ (active_position # 0
               /\ (C2_MeanReversionExit \/ C2_StopLoss \/ C2_TimedExit))
             => /\ active_position' = 0
                /\ entry_price' = None
                /\ bars_held' = 0
                /\ LastSignal(signal') = 0
          /\ Len(signal) >= 1
             => LastSignal(signal) * LastSignal(signal') # -1]_vars

\* a short was just closed on a bar whose zscore also meets the long entry
\* test: the bar is recorded flat
C2_Witness ==
    /\ pc = "scan" /\ Len(signal) >= 2
    /\ signal[Len(signal) - 1] = -1
    /\ LastSignal(signal) = 0
    /\ active_position = 0 /\ IsNone(entry_price) /\ bars_held = 0
    /\ ZReady(data.zscore[Len(signal)])
    /\ ZLe(data.zscore[Len(signal)], RNeg(call.p.entry_z))

\* C3: a bar processed while Flat enters Long when zscore is defined and
\* zscore <= -entry_z, else Short when allow_short and zscore is defined and
\* zscore >= entry_z, else stays Flat; an entry sets entry_price to the
\* bar's close and bars_held to 0; the signal recorded is the resulting
\* active_position.
C3_FlatTransitions ==
    [][(ScanStep /\ active_position = 0) =>
          LET z == data.zscore[ScanRow]
              close == Int2Rat(data.close[ScanRow])
              long == ZReady(z) /\ ZLe(z, RNeg(call.p.entry_z))
              short == /\ ~long /\ call.p.allow_short
                       /\ ZReady(z) /\ ZGe(z, call.p.entry_z)
          IN  /\ long => /\ active_position' = 1
                         /\ entry_price' = close /\ bars_held' = 0
              /\ short => /\ active_position' = -1
                          /\ entry_price' = close /\ bars_held' = 0
              /\ (~long /\ ~short) =>
                     /\ active_position' = 0
                     /\ entry_price' = entry_price
                     /\ bars_held' = bars_held
              /\ ~ZReady(z) => active_position' = 0
              /\ LastSignal(signal') = active_position']_vars

\* a short entry was just made from Flat at the bar's close
C3_Witness ==
    /\ pc = "scan" /\ Len(signal) >= 2
    /\ signal[Len(signal) - 1] = 0
    /\ LastSignal(signal) = -1
    /\ active_position = -1 /\ bars_held = 0
    /\ entry_price = Int2Rat(data.close[Len(signal)])

\* no run of more than k consecutive non-zero values in s
NoRunLongerThan(s, k) ==
    \A i \in 1..(Len(s) - k) : \E j \in i..(i + k) : s[j] = 0

\* C4: with max_holding_bars = k >= 1 neither the signal column nor the
\* position column holds a run of non-zero values longer than k bars.
C4_MaxHoldingBoundsRuns ==
    (IsMR /\ ~IsNone(call.p.max_holding_bars)) =>
        LET k == call.p.max_holding_bars[1]
        IN  /\ NoRunLongerThan(signal, k)
            /\ EngineRan => /\ NoRunLongerThan(data.signal, k)
                            /\ NoRunLongerThan(data.position, k)

\* k = 2, no stop-loss: a position held for exactly two bars and closed on a
\* bar without a zscore, so by the timed exit alone
C4_Witness ==
    /\ EngineRan /\ IsMR
    /\ call.p.max_holding_bars = <<2, 1>>
    /\ IsNone(call.p.stop_loss_pct)
    /\ \E i \in Bars(data) :
          /\ i + 2 <= Len(data.close)
          /\ data.signal[i] # 0 /\ data.signal[i + 1] # 0
          /\ data.signal[i + 2] = 0
          /\ ~ZReady(data.zscore[i + 2])

\* C5: the SMA signal is 0 while a moving average is undefined, +1 when
\* ma_ready and sma_fast > sma_slow, and when ma_ready and sma_fast <=
\* sma_slow it is 0 in long_only and -1 in long_short; so the long_only
\* position is never negative, and the long_short position is negative on
\* some bar whenever a bar other than the last is ma_ready with
\* sma_fast <= sma_slow.
C5_SmaSignalRule ==
    (EngineRan /\ IsBacktest) =>
        LET ready(i) == NotNa(data.sma_5[i]) /\ NotNa(data.sma_20[i])
            above(i) == RGt(data.sma_5[i], data.sma_20[i])
            long_short == call.position_mode = "long_short"
        IN  /\ \A i \in Bars(data) :
                  data.signal[i] =
                      (IF ~ready(i) THEN 0
                       ELSE IF above(i) THEN 1
                       ELSE IF long_short THEN -1 ELSE 0)
            /\ ~long_short => \A i \in Bars(data) : data.position[i] >= 0
            /\ (long_short /\ \E i \in Bars(data) :
                                 i < Len(data.close) /\ ready(i) /\ ~above(i))
               => \E i \in Bars(data) : data.position[i] < 0

\* a long_short run holding both a long and a short position
C5_Witness ==
    /\ EngineRan /\ IsBacktest /\ call.position_mode = "long_short"
    /\ \E i \in Bars(data) : data.position[i] = 1
    /\ \E i \in Bars(data) : data.position[i] = -1

\* equity[0] = initial_capital and equity[t] = equity[t-1] * (1 + r[t])
Compounds(equity, r, initial_capital) ==
    /\ Len(equity) = Len(r)
    /\ \A t \in 1..Len(r) :
          equity[t] = (IF t = 1 THEN Int2Rat(initial_capital)
                       ELSE RMul(equity[t - 1], RAdd(One, r[t])))

\* C6: both engines return strategy_equity[0] = buy_hold_equity[0] =
\* initial_capital, and every later value compounds the corresponding
\* return column: equity[t] = equity[t-1] * (1 + r[t]).
C6_EquityCompoundsFromCapital ==
    EngineRan =>
        /\ Len(data.strategy_equity) = Len(call.df.close)
        /\ Compounds(data.strategy_equity, data.strategy_ret,
                     call.initial_capital)
        /\ Compounds(data.buy_hold_equity, data.ret, call.initial_capital)

\* an SMA run whose strategy equity has left initial_capital and differs
\* from the buy-and-hold equity
C6_Witness ==
    /\ EngineRan /\ IsBacktest
    /\ LET n == Len(data.close)
       IN  /\ data.strategy_equity[n] # Int2Rat(call.initial_capital)
           /\ data.buy_hold_equity[n] # Int2Rat(call.initial_capital)
           /\ data.strategy_equity[n] # data.buy_hold_equity[n]

\* C7: for a non-empty curve sorted by date and any horizon the window is
\* non-empty and no longer than the source, every listed equity column
\* starts at initial_capital and every listed return column starts at 0.
C7_WindowRebased ==
    (pc = "windowed" /\ IsBacktest) =>
        /\ Len(window.date) >= 1
        /\ Len(window.date) <= Len(data.date)
        /\ window.strategy_equity[1] = Int2Rat(call.initial_capital)
        /\ window.buy_hold_equity[1] = Int2Rat(call.initial_capital)
        /\ window.ret[1] = Zero
        /\ window.strategy_ret[1] = Zero

\* a window shorter than its source whose first bar had a strategy equity
\* other than initial_capital, rescaled over a later move
C7_Witness ==
    /\ pc = "windowed" /\ IsBacktest
    /\ Len(window.date) < Len(data.date)
    /\ LET first == Len(data.date) - Len(window.date) + 1
       IN  /\ RGt(data.strategy_equity[first], Zero)
           /\ data.strategy_equity[first] # Int2Rat(call.initial_capital)
           /\ \E i \in 1..Len(window.date) :
                 window.strategy_equity[i] # Int2Rat(call.initial_capital)

Min(a, b) == IF a < b THEN a ELSE b

\* C8: in either position mode the SMA position is 0 and strategy_equity is
\* initial_capital on each of the first 20 bars; a series of fewer than 20
\* bars yields a strategy equity flat at initial_capital.
C8_FirstTwentyBarsFlat ==
    (EngineRan /\ IsBacktest) =>
        \A i \in 1..Min(20, Len(call.df.close)) :
            /\ data.position[i] = 0
            /\ data.strategy_equity[i] = Int2Rat(call.initial_capital)

\* a position is taken on the 21st bar
C8_Witness ==
    /\ EngineRan /\ IsBacktest
    /\ Len(data.close) >= 21
    /\ data.position[21] # 0
    /\ data.strategy_equity[21] # Int2Rat(call.initial_capital)

CountNegative(s) == Cardinality({i \in 1..Len(s) : s[i] < 0})

\* C9: on the same series and parameters the run with allow_short = True
\* has at least as many negative-position bars as the run with allow_short
\* = False; with allow_short = False no signal or position is negative; and
\* every position is in {-1, 0, +1}.
C9_AllowShortMonotone ==
    (EngineRan /\ IsMR) =>
        LET other == run_mean_reversion_zscore(
                         call.df, call.initial_capital,
                         [call.p EXCEPT !.allow_short = ~call.p.allow_short])
            with == IF call.p.allow_short THEN data ELSE other
            without == IF call.p.allow_short THEN other ELSE data
        IN  /\ CountNegative(with.position) >= CountNegative(without.position)
            /\ CountNegative(without.signal) = 0
            /\ CountNegative(without.position) = 0
            /\ \A t \in Bars(data) : data.position[t] \in {-1, 0, 1}

\* a run with allow_short = True holding a short position on some bar
C9_Witness ==
    /\ EngineRan /\ IsMR /\ call.p.allow_short
    /\ CountNegative(data.position) > 0

AllZero(r) == \A i \in 1..Len(r) : r[i] = Zero

\* what C10 asks of the metrics m computed from the return series r
C10_Holds(r, m) ==
    /\ AllZero(r) => /\ m.cumulative_return = Zero
                     /\ m.max_drawdown = Zero
                     /\ m.volatility_sq = Zero
    /\ m.volatility_sq = Zero => /\ m.sharpe_ratio[1] = Zero
                                 /\ RGt(m.sharpe_ratio[2], Zero)
    /\ (\A i \in 1..Len(r) : RGt(r[i], <<-1, 1>>))
       => RLe(m.max_drawdown, Zero)

\* C10: on a non-empty all-zero return series cumulative_return,
\* max_drawdown, volatility and sharpe_ratio are 0; whenever the volatility
\* is 0 the sharpe_ratio is 0, never infinite or undefined; max_drawdown is
\* <= 0 when all returns are > -1.
C10_FlatMetrics ==
    pc = "done" =>
        IF call.fn = "metrics" THEN C10_Holds(call.returns, metrics)
        ELSE /\ C10_Holds(window.strategy_ret, metrics.strategy)
             /\ C10_Holds(window.ret, metrics.buy_hold)

\* a constant non-zero return series: volatility 0 with a non-zero mean
C10_Witness ==
    /\ pc = "done" /\ call.fn = "metrics"
    /\ Len(call.returns) >= 2
    /\ \A i \in 1..Len(call.returns) : call.returns[i] = <<1, 2>>
    /\ metrics.volatility_sq = Zero
    /\ metrics.sharpe_ratio[1] = Zero

\* the weights loop has processed at least one date
DateProcessed == pc \in {"dates", "aggregated"} /\ Len(portfolio_rets) >= 1

\* the sum of w over the tickers i..
RECURSIVE SumWeights(_, _, _)
SumWeights(tickers, w, i) ==
    IF i > Len(tickers) THEN Zero
    ELSE RAdd(w[tickers[i]], SumWeights(tickers, w, i + 1))

NonZeroWeights == {t \in Range(call.tickers) : latest_weights[t] # Zero}

\* C11: on every date of the unioned axis every weight is >= 0, a selected
\* ticker has weight 1/|selected| and an unselected one 0, so the weights
\* sum to 1 when a ticker is selected and to 0 otherwise; selected is a
\* subset of the active tickers (position > 0); with use_ranking at most
\* min(top_n, number of tickers) tickers have a non-zero weight.
C11_PortfolioWeights ==
    DateProcessed =>
        LET j == Len(portfolio_rets)
            tickers == Range(call.tickers)
            sel == Range(selected)
            n == IF call.top_n < Len(call.tickers) THEN call.top_n
                 ELSE Len(call.tickers)
        IN  /\ \A t \in tickers : RGe(latest_weights[t], Zero)
            /\ \A t \in sel : latest_weights[t] = Rat(1, Cardinality(sel))
            /\ \A t \in tickers \ sel : latest_weights[t] = Zero
            /\ SumWeights(call.tickers, latest_weights, 1)
                  = (IF sel = {} THEN Zero ELSE One)
            /\ sel \subseteq Range(active)
            /\ Range(active) = {t \in tickers : positions_wide[t][j] > 0}
            /\ Len(selected) = Cardinality(sel)
            /\ call.use_ranking => Cardinality(NonZeroWeights) <= n

\* three active tickers ranked with top_n = 2: two are held at 1/2 each
C11_Witness ==
    /\ DateProcessed /\ call.use_ranking /\ call.top_n = 2
    /\ Len(active) = 3 /\ Len(selected) = 2
    /\ Cardinality({t \in Range(call.tickers) :
                       latest_weights[t] = <<1, 2>>}) = 2

(***************************************************************************)
(* Error classification and retries of the data fetch.                     *)
(***************************************************************************)
\* the last attempt of the call timed out or brought a status other than 200
ProviderFailed ==
    /\ outcomes # <<>>
    /\ \/ IsTimeout(Last(outcomes))
       \/ Last(outcomes).status_code # 200

\* every page was answered with 200 and no page held a bar
ZeroBars ==
    /\ outcomes # <<>>
    /\ ~IsTimeout(Last(outcomes))
    /\ Last(outcomes).status_code = 200
    /\ all_bars = <<>>

\* C12: a fetch that ended with zero bars is answered with 404, a fetch that
\* ended with a provider failure (a timeout on the last attempt, or a final
\* status other than 200) is answered with 502, on both endpoints.
C12_FailureKindsKeepTheirStatus ==
    IsFetch /\ pc = "http_error" =>
        /\ ZeroBars => status_code = 404
        /\ ProviderFailed => status_code = 502

\* the attempt that brought outcomes[i] may be followed by another one
MayRetry(outcome) ==
    IsTimeout(outcome) \/ outcome.status_code \in retryable_status_codes

\* C18: a page request is attempted at most 3 times; an attempt is followed
\* by another only if it timed out or brought a status in
\* {429,500,502,503,504}, and only while fewer than 3 were made; any other
\* non-200 status fails at once; a timeout of the 3rd attempt or a final
\* status other than 200 raises AlpacaDataError and returns no price series;
\* a 200 response ends the attempts for the page.
C18_RetryDiscipline ==
    IsFetch =>
        /\ Len(outcomes) <= max_attempts
        /\ attempt <= max_attempts
        /\ pc = "request" => attempt = Len(outcomes) + 1
        /\ \A i \in 1..(Len(outcomes) - 1) :
              MayRetry(outcomes[i]) /\ i < max_attempts
        /\ \A i \in 1..Len(outcomes) :
              ~MayRetry(outcomes[i]) =>
                  /\ i = Len(outcomes)
                  /\ pc # "request"
                  /\ response = outcomes[i]
        /\ outcomes # <<>> /\ ~MayRetry(Last(outcomes))
              /\ Last(outcomes).status_code # 200
              => pc \in {"responded", "raised", "http_error"}
        /\ Len(outcomes) = max_attempts /\ IsTimeout(Last(outcomes))
              => /\ pc \in {"raised", "http_error"}
                 /\ error = TimeoutMessage(call.symbol)
                 /\ data = NoFrame
        /\ ProviderFailed /\ pc # "request"
              => /\ pc \in {"responded", "raised", "http_error"}
                 /\ pc # "responded" =>
                       error = IF IsTimeout(Last(outcomes))
                               THEN TimeoutMessage(call.symbol)
                               ELSE FailedMessage(call.symbol, response)
                 /\ data = NoFrame
        /\ pc = "fetched" =>
              /\ ~ProviderFailed
              /\ data = BarsFrame(all_bars)

\* a 500 on the first two attempts and a third attempt that also failed:
\* the call has raised after exactly three attempts
C18_Witness ==
    /\ IsFetch /\ pc = "raised"
    /\ Len(outcomes) = max_attempts
    /\ ~IsTimeout(outcomes[1]) /\ outcomes[1].status_code = 500
    /\ IsTimeout(outcomes[2])
    /\ ~IsTimeout(outcomes[3]) /\ outcomes[3].status_code = 429
    /\ page = 2

(***************************************************************************)
(* A portfolio whose tickers have no bars.                                 *)
(***************************************************************************)
\* every ticker of the request has zero bars
NoTickerHasBars ==
    \A t \in Range(call.tickers) : Raises(call.frames[t])

\* C13: when every ticker of /portfolio-backtest contributes zero dates, the
\* request fails with the no-data outcome of a symbol with zero bars (404)
\* and not with the outcome of provider failures (502); the date axis of a
\* request whose fetches all returned is never empty.
C13_NoBarsIsNoData ==
    IsPortfolio =>
        /\ pc = "http_error" /\ NoTickerHasBars =>
              /\ status_code = 404
              /\ status_code # 502
              /\ error = NoBarsMessage("weekly", <<call.tickers[1]>>)
        /\ NoTickerHasBars => pc \in {"called", "raised", "http_error"}
        /\ error # NoDatesMessage
        /\ pc \in {"dates", "aggregated", "windowed", "measured", "done"}
              => all_dates # <<>>

\* three tickers without a bar: the request has been answered with 404
C13_Witness ==
    /\ IsPortfolio /\ pc = "http_error"
    /\ Len(call.tickers) = 3 /\ NoTickerHasBars
    /\ status_code = 404

(***************************************************************************)
(* The rising series of the strategy test.                                 *)
(***************************************************************************)
IsRamp ==
    /\ call.fn = "run_sma_crossover"
    /\ call.df = RampFrame
    /\ call.position_mode = "long_only"
    /\ call.initial_capital = 10000

\* sma_fast > sma_slow on bar i
FastAbove(d, i) ==
    MaReady(d.sma_5, d.sma_20, i) /\ RGt(d.sma_5[i], d.sma_20[i])

\* i is the first bar where sma_fast > sma_slow
FirstCross(d, i) ==
    FastAbove(d, i) /\ \A j \in 1..(i - 1) : ~FastAbove(d, j)

\* C14 as stated: on the rising series 100..129, long_only, capital 10000,
\* strategy_equity equals buy_hold_equity on every bar before the first bar
\* where sma_fast > sma_slow.
C14_TracksBuyHoldBeforeCross ==
    EngineRan /\ IsRamp =>
        \A i \in Bars(data) :
            (\A j \in 1..i : ~FastAbove(data, j))
                => data.strategy_equity[i] = data.buy_hold_equity[i]

\* C14 amended: on the rising series 100..129, long_only, capital 10000,
\* there is a first bar where sma_fast > sma_slow; strategy_equity equals
\* initial_capital on every bar up to and including it and differs from
\* initial_capital on every later bar, while buy_hold_equity follows the
\* price from the second bar on.
C14_FlatUntilAfterCross ==
    EngineRan /\ IsRamp =>
        \E k \in Bars(data) :
            /\ FirstCross(data, k)
            /\ \A i \in Bars(data) :
                  /\ i <= k =>
                        data.strategy_equity[i] = Int2Rat(call.initial_capital)
                  /\ i > k =>
                        data.strategy_equity[i] # Int2Rat(call.initial_capital)
                  /\ data.buy_hold_equity[i]
                        = Rat(call.initial_capital * data.close[i], RampStart)

\* the fast average first exceeds the slow one on the 20th bar, the strategy
\* equity moves on the 21st, buy-and-hold stands at 10100 on the 2nd
C14_Witness ==
    /\ EngineRan /\ IsRamp
    /\ FirstCross(data, 20)
    /\ data.strategy_equity[20] = Int2Rat(10000)
    /\ data.strategy_equity[21] = Rat(1200000, 119)
    /\ data.buy_hold_equity[2] = Int2Rat(10100)

(***************************************************************************)
(* compute_metrics on the empty series.                                    *)
(***************************************************************************)
\* C15: compute_metrics of an empty return series does not fail: it returns
\* a summary with years floored at 1/periods_per_year and max_drawdown 0.
C15_EmptySeriesGivesSummary ==
    call.fn = "metrics" /\ Len(call.returns) = 0 /\ pc # "called" =>
        /\ pc = "done"
        /\ metrics # NoMetrics
        /\ metrics.cagr[2] = Rat(1, WEEKS_PER_YEAR)
        /\ metrics.max_drawdown = Zero

(***************************************************************************)
(* The rolling standard deviation of the z-score.                          *)
(***************************************************************************)
\* the square of the population standard deviation (divisor w) of the last
\* w closes, undefined before w bars exist
RollingPopVar(close, w) ==
    Column([i \in 1..Len(close) |->
        IF i < w THEN NaN
        ELSE LET sm == SumRange(close, i - w + 1, i)
                 sq == SumSqRange(close, i - w + 1, i)
             IN  Rat(w * sq - sm * sm, w * w)])

\* (close - mean) / population_std on bar i
PopZScore(d, w, i) ==
    <<RSub(Int2Rat(d.close[i]), d.mean[i]), RollingPopVar(d.close, w)[i]>>

\* C16: the rolling std of the z-score is the population standard deviation
\* of the last lookback closes, undefined until lookback bars exist and
\* when it is 0; on every bar with a defined z-score the entry tests
\* zscore <= -entry_z and zscore >= entry_z hold exactly when
\* (close - mean) <= -entry_z * population_std, resp. >= entry_z *
\* population_std.
C16_PopulationStd ==
    IsMR /\ pc = "scan" =>
        \A i \in Bars(data) :
            /\ data.std_sq[i]
                  = WhereNonZero(RollingPopVar(data.close, call.p.lookback))[i]
            /\ ZReady(data.zscore[i]) =>
                  /\ ZLe(data.zscore[i], RNeg(call.p.entry_z))
                        <=> ZLe(PopZScore(data, call.p.lookback, i),
                                RNeg(call.p.entry_z))
                  /\ ZGe(data.zscore[i], call.p.entry_z)
                        <=> ZGe(PopZScore(data, call.p.lookback, i),
                                call.p.entry_z)

(***************************************************************************)
(* Lookahead in the portfolio weights.                                     *)
(***************************************************************************)
\* the inputs of a second run that agrees with this one on every date
\* before all_dates[j]: the close of the last ticker on that date is
\* another price
OtherRuns(j) ==
    LET t == call.tickers[Len(call.tickers)]
        row == RowOf(call.frames[t], all_dates[j])
    IN  IF row = 0 THEN {}
        ELSE {[call.frames EXCEPT ![t].close[row] = c] :
                 c \in Closes \ {call.frames[t].close[row]}}

\* selected on the j-th date of the run on frames, with this run's tickers,
\* top_n and use_ranking (main.py 223-261)
SelectedOn(frames, j) ==
    LET inputs == StrategyInputs(frames)
        dates == AllDates(inputs)
        returns == Wide(inputs, "ret", dates, Zero)
        positions == Wide(inputs, "position", dates, 0)
        momentum == MomentumWide(returns)
    IN  Selected(call.tickers, Active(call.tickers, positions, j),
                 momentum, j, call.use_ranking, call.top_n)

\* C17: the weights applied to the returns of a date t are determined by
\* data from dates before t: a second run with the same tickers, top_n and
\* use_ranking whose series agree with this run's on all dates before t
\* selects the same tickers with the same weights on t, whatever its
\* returns on t are.
C17_NoLookahead ==
    IsPortfolio /\ pc = "dates" /\ Len(portfolio_rets) >= 1 =>
        \A frames \in OtherRuns(Len(portfolio_rets)) :
            LET sel == SelectedOn(frames, Len(portfolio_rets))
            IN  /\ sel = selected
                /\ Weights(call.tickers, sel) = latest_weights

=============================================================================
